---- MODULE Spec2Model ----
(***************************************************************************)
(* A model of berp, the symmetric ASN.1 DER/BER parser/encoder             *)
(* (src/berp/__init__.py).                                                 *)
(*                                                                         *)
(* Bytes are integers 0..255 and byte strings are sequences of bytes.      *)
(* Python's unbounded integers are modelled by TLC integers; the inputs    *)
(* are bounded so that no intermediate value leaves the 32 bit range.      *)
(* A raised Python exception is modelled by a non-empty `err` field.       *)
(***************************************************************************)
EXTENDS Integers, Sequences, FiniteSets, TLC

VARIABLES
    pc,         \* position of the driver that calls the library
    n,          \* integer handed to encode_varint / Integer._encode_value
    tail,       \* bytes that follow the varint in the buffer
    bytearr,    \* the bytearray decode_varint consumes
    value,      \* the integer decode_varint / _decode_value returned
    data,       \* the buffer handed to parse
    obj,        \* parse(data)
    enc,        \* bytes(obj)
    obj2,       \* parse(bytes(obj))
    cut,        \* length of the prefix of data handed to parse
    objcut,     \* parse(data[:cut])
    registry,   \* classes created so far by find_class, in creation order
    lookups,    \* number of direct find_class calls made by the driver
    request,    \* the (tag, cons, class) triple of the last direct lookup
    found,      \* the class that lookup returned
    created,    \* TRUE iff that lookup created a class
    resolved    \* the (triple, class) pairs of the direct lookups so far

vars == <<pc, n, tail, bytearr, value, data, obj, enc, obj2, cut, objcut,
          registry, lookups, request, found, created, resolved>>

----------------------------------------------------------------------------
(* Bounds of the model.                                                    *)

MaxVarint == 16500      \* largest n handed to encode_varint
MaxTail == 1            \* longest tail after a varint
MaxInt == 300           \* Integer values range over -MaxInt..MaxInt
MaxLen == 4             \* longest buffer drawn from Alphabet
MaxLookups == 3         \* longest sequence of direct find_class calls

----------------------------------------------------------------------------
(* Byte string helpers (Python slicing and bytes operations).              *)

Drop(s, k) == IF k >= Len(s) THEN <<>> ELSE SubSeq(s, k + 1, Len(s))
Take(s, k) == IF k >= Len(s) THEN s ELSE SubSeq(s, 1, k)
Reversed(s) == [i \in 1..Len(s) |-> s[Len(s) + 1 - i]]

RECURSIVE bit_length(_)
bit_length(v) ==
    IF v < 0 THEN bit_length(0 - v)
    ELSE IF v = 0 THEN 0 ELSE 1 + bit_length(v \div 2)

----------------------------------------------------------------------------
(* decode_varint / encode_varint                                           *)

RECURSIVE decode_varint_loop(_, _)
decode_varint_loop(val, arr) ==
    \* `while bytearr.pop(0) & 0x80: value = (value << 7) | (bytearr[0] & 0x7f)`
    LET popped == Head(arr)
        rest == Tail(arr)
    IN  IF popped >= 128
        THEN IF rest = <<>>
             THEN [err |-> "IndexError", value |-> val, rest |-> rest]
             ELSE decode_varint_loop(val * 128 + (rest[1] % 128), rest)
        ELSE [err |-> "", value |-> val, rest |-> rest]

decode_varint(arr) ==
    IF arr = <<>>
    THEN [err |-> "IndexError", value |-> 0, rest |-> arr]
    ELSE decode_varint_loop(arr[1] % 128, arr)

RECURSIVE encode_varint_loop(_, _)
encode_varint_loop(res, m) ==
    IF m # 0
    THEN encode_varint_loop(Append(res, (m % 128) + 128), m \div 128)
    ELSE res

\* encode_varint shifting by a whole byte instead of seven bits
encode_varint_shift8(m) == Reversed(encode_varint_loop(<<m % 128>>, m \div 256))

encode_varint(m) == Reversed(encode_varint_loop(<<m % 128>>, m \div 128))

----------------------------------------------------------------------------
(* BitField: bit slices of one integer.                                    *)

RECURSIVE Pow2(_)
Pow2(k) == IF k = 0 THEN 1 ELSE 2 * Pow2(k - 1)

\* BitField.__getitem__(slice(lo, hi)) and BitField.__getitem__(index)
BitField_getslice(v, lo, hi) == (v \div Pow2(lo)) % Pow2(hi - lo)
BitField_getbit(v, i) == (v \div Pow2(i)) % 2

\* BitField.__setitem__(slice(lo, hi), x): bits lo..hi-1 are replaced by x
BitField_setslice(v, lo, hi, x) ==
    v - BitField_getslice(v, lo, hi) * Pow2(lo) + (x % Pow2(hi - lo)) * Pow2(lo)
\* BitField.__setitem__(index, x): `self.value |= bool(x) << index`
BitField_setbit(v, i, x) ==
    IF x # 0 /\ BitField_getbit(v, i) = 0 THEN v + Pow2(i) ELSE v

----------------------------------------------------------------------------
(* Constants of the source.                                                *)

DER_TAG_EXTENDED == 31

None == -1                      \* Python's None in an integer attribute
NoClass == 0                    \* find_class returning None

\* ASN1Tag
Tag_EOC == 0
Tag_Boolean == 1
Tag_Integer == 2
Tag_BitString == 3
Tag_OctetString == 4
Tag_Null == 5
Tag_OID == 6
Tag_UTF8String == 12
Tag_Sequence == 16
Tag_Set == 17
Tag_PrintableString == 19
Tag_IA5String == 22
Tag_GeneralString == 27
Tag_UniversalString == 28

\* ASN1Class
Universal == 0
Application == 1
Context == 2
Private == 3

----------------------------------------------------------------------------
(* The class hierarchy.  A class is a record of its resolved attributes    *)
(* (TAG, CONS, CLASS as the MRO resolves them, None when unset), the ids   *)
(* of its direct bases, and the names of the methods the MRO resolves:     *)
(* codec (_decode_value/_encode_value), whether _decode_indefinite exists, *)
(* and whether the class is EOC or derives from it.  A class id is its     *)
(* position in creation order, the order of __subclasses__().              *)

Cls(name, tag, cons, k, bases, codec) ==
    [name |-> name, TAG |-> tag, CONS |-> cons, CLASS |-> k, bases |-> bases,
     codec |-> codec, constructed |-> (codec = "Constructed"),
     eoc |-> (name = "EOC")]

Id_ASN1Object == 1
Id_Constructed == 2
Id_Universal == 3
Id_UniversalConstructed == 4
Id_Sequence == 5
Id_Primitive == 7
Id_UniversalPrimitive == 8
Id_EOC == 9
Id_Null == 10
Id_Integer == 12
Id_Boolean == 13

Builtins == <<
    Cls("ASN1Object", None, None, None, {}, "ASN1Object"),
    Cls("Constructed", None, 1, None, {Id_ASN1Object}, "Constructed"),
    Cls("Universal", None, None, Universal, {Id_ASN1Object}, "ASN1Object"),
    Cls("UniversalConstructed", None, 1, Universal,
        {Id_Universal, Id_Constructed}, "Constructed"),
    Cls("Sequence", Tag_Sequence, 1, Universal, {Id_UniversalConstructed}, "Constructed"),
    Cls("Set", Tag_Set, 1, Universal, {Id_UniversalConstructed}, "Constructed"),
    Cls("Primitive", None, 0, None, {Id_ASN1Object}, "ASN1Object"),
    Cls("UniversalPrimitive", None, 0, Universal,
        {Id_Universal, Id_Primitive}, "ASN1Object"),
    Cls("EOC", Tag_EOC, 0, Universal, {Id_UniversalPrimitive}, "ASN1Object"),
    Cls("Null", Tag_Null, 0, Universal, {Id_UniversalPrimitive}, "Null"),
    Cls("OID", Tag_OID, 0, Universal, {Id_UniversalPrimitive}, "OID"),
    Cls("Integer", Tag_Integer, 0, Universal, {Id_UniversalPrimitive}, "Integer"),
    Cls("Boolean", Tag_Boolean, 0, Universal, {Id_Integer}, "Boolean"),
    Cls("UTF8String", Tag_UTF8String, 0, Universal, {Id_UniversalPrimitive}, "utf-8"),
    Cls("GeneralString", Tag_GeneralString, 0, Universal, {Id_UniversalPrimitive}, "utf-8"),
    Cls("UniversalString", Tag_UniversalString, 0, Universal,
        {Id_UniversalPrimitive}, "utf-8"),
    Cls("IA5String", Tag_IA5String, 0, Universal, {Id_UniversalPrimitive}, "ascii"),
    Cls("PrintableString", Tag_PrintableString, 0, Universal,
        {Id_UniversalPrimitive}, "ascii"),
    Cls("OctetString", Tag_OctetString, 0, Universal, {Id_UniversalPrimitive}, "ASN1Object"),
    Cls("BitString", Tag_BitString, 0, Universal, {Id_UniversalPrimitive}, "ASN1Object")
>>

\* every class alive: the built-in ones, then those find_class created
Classes(reg) == Builtins \o reg
ClassOf(reg, c) == Classes(reg)[c]

\* __subclasses__() that has lost the classes find_class created
subclasses_builtin(reg, c) ==
    SelectSeq([i \in 1..Len(Builtins) |-> i], LAMBDA i : c \in Builtins[i].bases)

\* cls.__subclasses__(): the direct subclasses, in creation order
subclasses(reg, c) ==
    LET all == Classes(reg)
    IN  SelectSeq([i \in 1..Len(all) |-> i], LAMBDA i : c \in all[i].bases)

\* the class `type(name, (cls,), {'TAG': tag, 'CLASS': asn1cls, 'CONS': cons})`
new_class(reg, c, tag, cons, asn1cls) ==
    LET base == ClassOf(reg, c)
    IN  [name |-> IF cons # 0 THEN "Cons" ELSE "Prim",
         TAG |-> tag, CONS |-> cons, CLASS |-> asn1cls, bases |-> {c},
         codec |-> base.codec, constructed |-> base.constructed,
         eoc |-> base.eoc]

RECURSIVE find_class(_, _, _, _, _)
RECURSIVE find_in_subclasses(_, _, _, _, _)

Found(c, reg) == [found |-> c, reg |-> reg]

\* find_class after the loop over the subclasses; sub is what the loop left
find_class_tail(cl, c, tag, cons, asn1cls, sub) ==
    IF sub.found # NoClass THEN sub
    ELSE IF cl.TAG # None /\ cl.TAG # tag THEN Found(NoClass, sub.reg)
    ELSE IF cl.CONS # None /\ cl.CONS # cons THEN Found(NoClass, sub.reg)
    ELSE IF cl.CLASS # None /\ cl.CLASS # asn1cls THEN Found(NoClass, sub.reg)
    ELSE Found(Len(Classes(sub.reg)) + 1,
               Append(sub.reg, new_class(sub.reg, c, tag, cons, asn1cls)))

find_class_on(cl, reg, c, tag, cons, asn1cls) ==
    IF cl.TAG = tag /\ cl.CONS = cons /\ cl.CLASS = asn1cls
    THEN Found(c, reg)
    ELSE find_class_tail(cl, c, tag, cons, asn1cls,
             find_in_subclasses(reg, subclasses(reg, c), tag, cons, asn1cls))

\* ASN1Object.find_class, called on class c; the result is the class found
\* (NoClass for None) and the registry after the call
find_class(reg, c, tag, cons, asn1cls) ==
    find_class_on(ClassOf(reg, c), reg, c, tag, cons, asn1cls)

find_in_subclasses_step(r, subs, tag, cons, asn1cls) ==
    IF r.found # NoClass THEN r
    ELSE find_in_subclasses(r.reg, Tail(subs), tag, cons, asn1cls)

\* `for subclass in cls.__subclasses__(): found = subclass.find_class(...)`
find_in_subclasses(reg, subs, tag, cons, asn1cls) ==
    IF subs = <<>>
    THEN Found(NoClass, reg)
    ELSE find_in_subclasses_step(find_class(reg, Head(subs), tag, cons, asn1cls),
                                 subs, tag, cons, asn1cls)

----------------------------------------------------------------------------
(* Values.  A Python value is a record tagged with its kind: "int"         *)
(* (num), "bool" (num is 0 or 1), "none", "bytes" (seq), "tuple" (seq, an  *)
(* OID's arcs), "str" (seq of code points) and "list" (items, the nodes).  *)

VInt(v) == [kind |-> "int", num |-> v, seq |-> <<>>, items |-> <<>>]
VBool(b) == [kind |-> "bool", num |-> IF b THEN 1 ELSE 0, seq |-> <<>>, items |-> <<>>]
VNone == [kind |-> "none", num |-> 0, seq |-> <<>>, items |-> <<>>]
VBytes(s) == [kind |-> "bytes", num |-> 0, seq |-> s, items |-> <<>>]
VTuple(s) == [kind |-> "tuple", num |-> 0, seq |-> s, items |-> <<>>]
VStr(s) == [kind |-> "str", num |-> 0, seq |-> s, items |-> <<>>]
VList(xs) == [kind |-> "list", num |-> 0, seq |-> <<>>, items |-> xs]

\* int.from_bytes(data, 'big')
RECURSIVE int_from_bytes(_)
int_from_bytes(bs) ==
    IF bs = <<>> THEN 0
    ELSE int_from_bytes(SubSeq(bs, 1, Len(bs) - 1)) * 256 + bs[Len(bs)]

\* int.from_bytes(data, 'big', signed=True): the first byte carries the sign
RECURSIVE int_from_bytes_signed(_)
int_from_bytes_signed(bs) ==
    IF bs = <<>> THEN 0
    ELSE IF Len(bs) = 1 THEN (IF bs[1] >= 128 THEN bs[1] - 256 ELSE bs[1])
    ELSE int_from_bytes_signed(SubSeq(bs, 1, Len(bs) - 1)) * 256 + bs[Len(bs)]

\* v.to_bytes(k, 'big') and v.to_bytes(k, 'big', signed=True) for a v that
\* fits: the k low bytes of v in two's complement (\div and % round down)
RECURSIVE to_bytes(_, _)
to_bytes(v, k) ==
    IF k = 0 THEN <<>> ELSE Append(to_bytes(v \div 256, k - 1), v % 256)

\* Integer._encode_value without the extra bit for the sign
Integer_encode_value_unsigned(v) == to_bytes(v, (bit_length(v) + 7) \div 8)

\* Integer._decode_value / Integer._encode_value
Integer_decode_value(bs) == int_from_bytes_signed(bs)
Integer_encode_value(v) == to_bytes(v, (bit_length(v) + 8) \div 8)

\* Boolean._decode_value: bool(int.from_bytes(data, 'big')), which is true
\* iff some byte is not zero
Boolean_decode_value(bs) == \E i \in 1..Len(bs) : bs[i] # 0
\* Boolean._encode_value, of a value that is True (1) or False (0)
Boolean_encode_value(v) ==
    LET w == IF v = 1 THEN 255 ELSE v
    IN  to_bytes(w, (bit_length(w) + 7) \div 8)

\* OID._decode_value: `while d: oid.append(decode_varint(d))`
RECURSIVE OID_decode_arcs(_, _)
OID_decode_arcs(oid, d) ==
    IF d = <<>> THEN [err |-> "", value |-> oid]
    ELSE LET r == decode_varint(d)
         IN  IF r.err # "" THEN [err |-> r.err, value |-> oid]
             ELSE OID_decode_arcs(Append(oid, r.value), r.rest)

OID_decode_value(bs) ==
    IF bs = <<>> THEN [err |-> "IndexError", value |-> <<>>]
    ELSE OID_decode_arcs(<<bs[1] \div 40, bs[1] % 40>>, Tail(bs))

\* OID._encode_value
RECURSIVE OID_encode_arcs(_)
OID_encode_arcs(arcs) ==
    IF arcs = <<>> THEN <<>>
    ELSE encode_varint(Head(arcs)) \o OID_encode_arcs(Tail(arcs))

OID_encode_value(oid) == <<oid[1] * 40 + oid[2]>> \o OID_encode_arcs(Drop(oid, 2))

\* StringType with ENCODING = 'ascii'
ascii_decode(bs) ==
    IF \E i \in 1..Len(bs) : bs[i] >= 128
    THEN [err |-> "UnicodeDecodeError", value |-> <<>>]
    ELSE [err |-> "", value |-> bs]
ascii_encode(cps) == cps

\* StringType with ENCODING = 'utf-8' (the strict decoder)
IsCont(b) == b >= 128 /\ b < 192
RECURSIVE utf8_decode_loop(_, _)
utf8_decode_loop(cps, bs) ==
    LET b == bs[1]
        has(k) == Len(bs) >= k /\ \A i \in 2..k : IsCont(bs[i])
        bad == [err |-> "UnicodeDecodeError", value |-> cps]
    IN  IF bs = <<>> THEN [err |-> "", value |-> cps]
        ELSE IF b < 128 THEN utf8_decode_loop(Append(cps, b), Tail(bs))
        ELSE IF b >= 194 /\ b < 224 /\ has(2)
        THEN utf8_decode_loop(Append(cps, (b % 32) * 64 + (bs[2] % 64)), Drop(bs, 2))
        ELSE IF b >= 224 /\ b < 240 /\ has(3)
                /\ (b = 224 => bs[2] >= 160) /\ (b = 237 => bs[2] < 160)
        THEN utf8_decode_loop(
                 Append(cps, (b % 16) * 4096 + (bs[2] % 64) * 64 + (bs[3] % 64)),
                 Drop(bs, 3))
        ELSE IF b >= 240 /\ b < 245 /\ has(4)
                /\ (b = 240 => bs[2] >= 144) /\ (b = 244 => bs[2] < 144)
        THEN utf8_decode_loop(
                 Append(cps, (b % 8) * 262144 + (bs[2] % 64) * 4096
                             + (bs[3] % 64) * 64 + (bs[4] % 64)),
                 Drop(bs, 4))
        ELSE bad

utf8_decode(bs) == utf8_decode_loop(<<>>, bs)

utf8_encode_char(cp) ==
    IF cp < 128 THEN <<cp>>
    ELSE IF cp < 2048 THEN <<192 + (cp \div 64), 128 + (cp % 64)>>
    ELSE IF cp < 65536
    THEN <<224 + (cp \div 4096), 128 + ((cp \div 64) % 64), 128 + (cp % 64)>>
    ELSE <<240 + (cp \div 262144), 128 + ((cp \div 4096) % 64),
           128 + ((cp \div 64) % 64), 128 + (cp % 64)>>

RECURSIVE utf8_encode(_)
utf8_encode(cps) ==
    IF cps = <<>> THEN <<>>
    ELSE utf8_encode_char(Head(cps)) \o utf8_encode(Tail(cps))

----------------------------------------------------------------------------
(* Headers.                                                                *)

\* _encode_header that leaves out `head[5] = cons`
encode_header_nocons(cl, length) ==
    LET tag == IF cl.TAG >= 31 THEN DER_TAG_EXTENDED ELSE cl.TAG
        head == BitField_setslice(BitField_setslice(0, 6, 8, cl.CLASS), 0, 5, tag)
        ext == IF tag = DER_TAG_EXTENDED THEN encode_varint(cl.TAG) ELSE <<>>
        byte_count == (bit_length(length) + 7) \div 8
    IN  <<head>> \o ext \o
        (IF length = None THEN <<128>>
         ELSE IF length < 128 THEN <<length>>
         ELSE <<128 + byte_count>> \o to_bytes(length, byte_count))

\* ASN1Object._encode_header of class record cl; length None is indefinite
encode_header(cl, length) ==
    LET tag == IF cl.TAG >= 31 THEN DER_TAG_EXTENDED ELSE cl.TAG
        head == BitField_setslice(
                    BitField_setbit(BitField_setslice(0, 6, 8, cl.CLASS), 5, cl.CONS),
                    0, 5, tag)
        ext == IF tag = DER_TAG_EXTENDED THEN encode_varint(cl.TAG) ELSE <<>>
        byte_count == (bit_length(length) + 7) \div 8
    IN  <<head>> \o ext \o
        (IF length = None THEN <<128>>
         ELSE IF length < 128 THEN <<length>>
         ELSE <<128 + byte_count>> \o to_bytes(length, byte_count))

HeaderError(e) ==
    [err |-> e, tag |-> 0, cons |-> 0, asn_cls |-> 0, length |-> 0, rest |-> <<>>]

\* the length part of ASN1Object._decode_header, after the tag was read
decode_length(tag, cons, asn_cls, arr) ==
    LET length == Head(arr)
        after == Tail(arr)
        byte_count == length % 128
    IN  IF arr = <<>> THEN HeaderError("ValueError: truncated der header")
        ELSE IF length > 128
        THEN IF byte_count > Len(after)
             THEN HeaderError("ValueError: bad der length")
             ELSE [err |-> "", tag |-> tag, cons |-> cons, asn_cls |-> asn_cls,
                   length |-> int_from_bytes(Take(after, byte_count)),
                   rest |-> Drop(after, byte_count)]
        ELSE [err |-> "", tag |-> tag, cons |-> cons, asn_cls |-> asn_cls,
              length |-> IF length = 128 THEN None ELSE length, rest |-> after]

\* ASN1Object._decode_header: (tag, cons, asn_cls, length) and what is left
\* of the bytearray
decode_header(arr) ==
    LET head == Head(arr)
        asn_cls == BitField_getslice(head, 6, 8)
        cons == BitField_getbit(head, 5)
        tag == BitField_getslice(head, 0, 5)
        ext == decode_varint(Tail(arr))
    IN  IF arr = <<>> THEN HeaderError("IndexError")
        ELSE IF tag = DER_TAG_EXTENDED
        THEN IF ext.err # "" THEN HeaderError(ext.err)
             ELSE decode_length(ext.value, cons, asn_cls, ext.rest)
        ELSE decode_length(tag, cons, asn_cls, Tail(arr))

----------------------------------------------------------------------------
(* Nodes: the instances of ASN1Object.  err is the exception raised in     *)
(* place of returning a node ("" when a node was returned).                *)

Node(cl, val, header_length, length, indefinite) ==
    [err |-> "", cls |-> cl, value |-> val, header_length |-> header_length,
     length |-> length, indefinite |-> indefinite]

\* an instance built by the constructor: no header_length, length, _indefinite
New(cl, val) == Node(cl, val, None, None, FALSE)

Raised(e) ==
    [err |-> e, cls |-> Builtins[Id_ASN1Object], value |-> VNone,
     header_length |-> None, length |-> None, indefinite |-> FALSE]

RECURSIVE from_bytes(_, _)
RECURSIVE Constructed_decode_value(_, _, _)
RECURSIVE decode_indefinite(_, _, _, _)

Decoded(e, val, reg) == [err |-> e, value |-> val, reg |-> reg]

\* cls._decode_value(data) as ASN1Object.__init__ calls it: the value (or the
\* exception) and the registry left
decode_value(reg, cl, bs) ==
    CASE cl.codec = "Constructed" -> Constructed_decode_value(reg, bs, <<>>)
      [] cl.codec = "Null" ->
            Decoded(IF Len(bs) = 0 THEN "" ELSE "AssertionError", VNone, reg)
      [] cl.codec = "OID" ->
            Decoded(OID_decode_value(bs).err, VTuple(OID_decode_value(bs).value), reg)
      [] cl.codec = "Integer" -> Decoded("", VInt(Integer_decode_value(bs)), reg)
      [] cl.codec = "Boolean" -> Decoded("", VBool(Boolean_decode_value(bs)), reg)
      [] cl.codec = "ascii" ->
            Decoded(ascii_decode(bs).err, VStr(ascii_decode(bs).value), reg)
      [] cl.codec = "utf-8" ->
            Decoded(utf8_decode(bs).err, VStr(utf8_decode(bs).value), reg)
      [] OTHER -> Decoded("", VBytes(bs), reg)

Returned(o, reg) == [obj |-> o, reg |-> reg]

\* from_bytes, definite branch: `obj = cls(data=bytes(arr[:length]))`, then
\* header_length, length and _indefinite are set; def is the decoded value
new_definite(cl, header_length, length, def) ==
    IF def.err # "" THEN Returned(Raised(def.err), def.reg)
    ELSE Returned(Node(cl, def.value, header_length, header_length + length, FALSE),
                  def.reg)

\* from_bytes, indefinite branch: `value, length = cls._decode_indefinite(arr)`
\* and `obj = cls(value=value)`; ind is what _decode_indefinite returned
new_indefinite(cl, header_length, ind) ==
    IF ind.err # "" THEN Returned(Raised(ind.err), ind.reg)
    ELSE Returned(Node(cl, VList(ind.value), header_length,
                       header_length + ind.offset, TRUE),
                  ind.reg)

\* from_bytes from `cls = cls.find_class(tag, cons, asn1cls)` on; cl is the
\* class found and reg the registry the lookup left
from_class(reg, cl, bs, h) ==
    IF h.length = None
    THEN IF ~cl.constructed
         THEN Returned(Raised("AttributeError"), reg)
         ELSE new_indefinite(cl, Len(bs) - Len(h.rest),
                             decode_indefinite(reg, h.rest, <<>>, 0))
    ELSE new_definite(cl, Len(bs) - Len(h.rest), h.length,
                      decode_value(reg, cl, Take(h.rest, h.length)))

from_found(fc, bs, h) == from_class(fc.reg, ClassOf(fc.reg, fc.found), bs, h)

\* from_bytes without the `len(arr) < length` check
from_header_unchecked(reg, bs, h) ==
    IF h.err # "" THEN Returned(Raised(h.err), reg)
    ELSE from_found(find_class(reg, Id_ASN1Object, h.tag, h.cons, h.asn_cls), bs, h)

\* from_bytes after `tag, cons, asn1cls, length = cls._decode_header(arr)`
from_header(reg, bs, h) ==
    IF h.err # "" THEN Returned(Raised(h.err), reg)
    ELSE IF h.length # None /\ Len(h.rest) < h.length
    THEN Returned(Raised("ValueError: Truncated DER object"), reg)
    ELSE from_found(find_class(reg, Id_ASN1Object, h.tag, h.cons, h.asn_cls), bs, h)

\* ASN1Object.from_bytes: the node (or the exception) and the registry left
from_bytes(reg, bs) == from_header(reg, bs, decode_header(bs))

\* one turn of the loop of Constructed._decode_value; d is from_bytes(data)
Constructed_decode_step(bs, val, d) ==
    IF d.obj.err # "" THEN Decoded(d.obj.err, VList(val), d.reg)
    ELSE Constructed_decode_value(d.reg, Drop(bs, d.obj.length), Append(val, d.obj))

\* Constructed._decode_value: `while data: decoded = ASN1Object.from_bytes(data)`
Constructed_decode_value(reg, bs, val) ==
    IF bs = <<>> THEN Decoded("", VList(val), reg)
    ELSE Constructed_decode_step(bs, val, from_bytes(reg, bs))

Indefinite(e, val, offset, reg) ==
    [err |-> e, value |-> val, offset |-> offset, reg |-> reg]

\* one turn of the loop of _decode_indefinite; d is from_bytes(data[offset:])
decode_indefinite_step(bs, val, offset, d) ==
    IF d.obj.err # "" THEN Indefinite(d.obj.err, val, offset, d.reg)
    ELSE IF d.obj.cls.eoc
    THEN Indefinite("", Append(val, d.obj), offset + d.obj.length, d.reg)
    ELSE decode_indefinite(d.reg, bs, Append(val, d.obj), offset + d.obj.length)

\* Constructed._decode_indefinite: the children up to and including the
\* first EOC instance, and the offset reached
decode_indefinite(reg, bs, val, offset) ==
    IF ~(offset < Len(bs))
    THEN Indefinite("RuntimeError: truncated indefinite BER tag (no EOC marker)",
                    val, offset, reg)
    ELSE decode_indefinite_step(bs, val, offset, from_bytes(reg, Drop(bs, offset)))

RECURSIVE bytes(_)
RECURSIVE Constructed_encode_value(_)

\* cls._encode_value(self.value): the `data` property
encode_value(o) ==
    CASE o.cls.codec = "Constructed" -> Constructed_encode_value(o.value.items)
      [] o.cls.codec = "Null" -> <<>>
      [] o.cls.codec = "OID" -> OID_encode_value(o.value.seq)
      [] o.cls.codec = "Integer" -> Integer_encode_value(o.value.num)
      [] o.cls.codec = "Boolean" -> Boolean_encode_value(o.value.num)
      [] o.cls.codec = "ascii" -> ascii_encode(o.value.seq)
      [] o.cls.codec = "utf-8" -> utf8_encode(o.value.seq)
      [] OTHER -> o.value.seq

\* ASN1Object.__bytes__
bytes(o) ==
    LET d == encode_value(o)
    IN  encode_header(o.cls, IF o.indefinite THEN None ELSE Len(d)) \o d

\* Constructed._encode_value: b''.join(bytes(x) for x in value)
Constructed_encode_value(items) ==
    IF items = <<>> THEN <<>>
    ELSE bytes(Head(items)) \o Constructed_encode_value(Tail(items))

\* ASN1Object.__eq__: equal (TAG, CLASS, CONS) and equal value; lists are
\* compared element by element with __eq__
RECURSIVE eq(_, _)
eq(a, b) ==
    /\ <<a.cls.TAG, a.cls.CLASS, a.cls.CONS>> = <<b.cls.TAG, b.cls.CLASS, b.cls.CONS>>
    /\ a.value.kind = b.value.kind
    /\ a.value.num = b.value.num
    /\ a.value.seq = b.value.seq
    /\ Len(a.value.items) = Len(b.value.items)
    /\ \A i \in 1..Len(a.value.items) : eq(a.value.items[i], b.value.items[i])

\* parse(data)
parse(reg, bs) == from_bytes(reg, bs)

----------------------------------------------------------------------------
(* The inputs of the model.                                                *)

\* the bytes buffers are made of: the tags of EOC, Boolean, Integer,
\* BitString, Null and Sequence, the lengths 0..3 and 5, the indefinite
\* length 0x80, the long form 0x81, a context tag (0x80, 0x81), an extended
\* private tag (0xFF), and the contents 0x00, 0x01, 0x80, 0xFF
Alphabet == {0, 1, 2, 3, 5, 48, 128, 129, 255}

\* TLC's integers are 32 bits wide where Python's are unbounded: a base-128
\* number of five groups (four continuation bytes and one more byte behind
\* a tag byte) is left out of the inputs
Fits(b) ==
    ~ \E i \in 2..Len(b) :
        /\ i + 4 <= Len(b)
        /\ \A j \in i..(i + 3) : b[j] >= 128

\* buffers longer than MaxLen: nested and indefinite values, the other
\* built-in types, long and extended headers
Samples == {
    <<48, 3, 1, 1, 0>>,                     \* Sequence(Boolean false)
    <<48, 3, 2, 1, 128>>,                   \* Sequence(Integer -128)
    <<48, 5, 2, 1, 1, 5, 0>>,               \* Sequence(Integer 1, Null)
    <<48, 6, 1, 1, 255, 2, 1, 127>>,        \* Sequence(Boolean true, Integer 127)
    <<48, 4, 48, 2, 5, 0>>,                 \* Sequence(Sequence(Null))
    <<49, 4, 4, 2, 1, 2>>,                  \* Set(OctetString 01 02)
    <<2, 2, 255, 127>>,                     \* Integer -129
    <<2, 3, 0, 128, 0>>,                    \* Integer 32768
    <<3, 2, 0, 255>>,                       \* BitString
    <<6, 3, 42, 134, 72>>,                  \* OID 1.2.840
    <<6, 1, 128>>,                          \* OID 3.8
    <<12, 2, 195, 169>>,                    \* UTF8String, one two-byte character
    <<12, 2, 195, 65>>,                     \* UTF8String, not UTF-8
    <<22, 2, 65, 66>>,                      \* IA5String "AB"
    <<22, 1, 200>>,                         \* IA5String, not ASCII
    <<19, 1, 65>>,                          \* PrintableString "A"
    <<31, 31, 0>>,                          \* Universal primitive, tag 31
    <<95, 129, 0, 1, 65>>,                  \* Application primitive, tag 128
    <<4, 129, 2, 65, 66>>,                  \* long form length below 0x80
    <<160, 3, 2, 1, 5>>,                    \* Context constructed [0]
    <<48, 128, 5, 0, 0, 0>>,                \* indefinite: Null, EOC
    <<48, 128, 1, 1, 0, 0, 0>>,             \* indefinite: Boolean false, EOC
    <<48, 128, 2, 1, 128, 0, 0>>,           \* indefinite: Integer -128, EOC
    <<48, 128, 0, 1, 65>>,                  \* indefinite, EOC with a value
    <<48, 128, 0, 0, 0, 0>>,                \* indefinite, two EOC
    <<48, 128, 32, 0, 0, 0>>,               \* indefinite: constructed tag 0, EOC
    <<48, 128, 48, 128, 0, 0, 0, 0>>,       \* indefinite in indefinite
    <<48, 6, 48, 128, 5, 0, 0, 0>>,         \* indefinite in definite
    <<160, 128, 48, 2, 5, 0, 0, 0>>,        \* definite in indefinite
    <<1, 128, 0, 0>>,                       \* indefinite primitive
    <<48, 4, 2, 3, 1, 2>>                   \* child longer than its parent
}

Buffers ==
    {b \in UNION {[1..k -> Alphabet] : k \in 0..MaxLen} : Fits(b)} \cup Samples

Tails == UNION {[1..k -> {0, 128, 255}] : k \in 0..MaxTail}

\* instances built with the constructors
Integer(v) == New(Builtins[Id_Integer], VInt(v))
Boolean(b) == New(Builtins[Id_Boolean], VBool(b))
Null == New(Builtins[Id_Null], VNone)
Sequence(xs) == New(Builtins[Id_Sequence], VList(xs))

Leaves == {Integer(0), Integer(1), Integer(-1), Integer(128), Boolean(TRUE),
           Boolean(FALSE), Null}
Built ==
    {Integer(v) : v \in (0 - MaxInt)..MaxInt}
    \cup {Boolean(TRUE), Boolean(FALSE), Null, Sequence(<<>>)}
    \cup {Sequence(<<a>>) : a \in Leaves}
    \cup {Sequence(<<a, b>>) : a \in Leaves, b \in Leaves}
    \cup {Sequence(<<Sequence(<<a>>), b>>) : a \in Leaves, b \in Leaves}

Tags == {Tag_EOC, Tag_Integer, Tag_Sequence, 31}
Triples == {<<t, c, k>> : t \in Tags, c \in {0, 1}, k \in {Universal, Context}}

Unset == Raised("unset")

----------------------------------------------------------------------------
(* The driver: what a caller of the library does, one call per action.     *)

VarintIdle == n = 0 /\ tail = <<>> /\ bytearr = <<>> /\ value = 0
ParseIdle ==
    /\ data = <<>> /\ obj = Unset /\ enc = <<>> /\ obj2 = Unset
    /\ cut = 0 /\ objcut = Unset
LookupIdle ==
    /\ lookups = 0 /\ request = <<0, 0, 0>> /\ found = NoClass
    /\ created = FALSE /\ resolved = {}

varintVars == <<n, tail, bytearr, value>>
parseVars == <<data, obj, enc, obj2, cut, objcut>>
lookupVars == <<lookups, request, found, created, resolved>>

\* --- decode_varint(bytearray(encode_varint(n) + tail)) --------------------
InitVarint ==
    /\ pc = "varint"
    /\ n \in 0..MaxVarint
    /\ tail \in Tails
    /\ bytearr = <<>> /\ value = 0
    /\ ParseIdle /\ LookupIdle /\ registry = <<>>

EncodeVarint ==
    /\ pc = "varint"
    /\ bytearr' = encode_varint(n) \o tail
    /\ pc' = "encoded_varint"
    /\ UNCHANGED <<n, tail, value, parseVars, lookupVars, registry>>

DecodeVarint ==
    /\ pc = "encoded_varint"
    /\ LET r == decode_varint(bytearr)
       IN  /\ value' = r.value
           /\ bytearr' = r.rest
           /\ pc' = IF r.err = "" THEN "decoded_varint" ELSE "raised"
    /\ UNCHANGED <<n, tail, parseVars, lookupVars, registry>>

NextVarint == EncodeVarint \/ DecodeVarint
SpecVarint == InitVarint /\ [][NextVarint]_vars

\* --- encoding instances built with the constructors -----------------------
InitEncode ==
    /\ pc = "built"
    /\ obj \in Built
    /\ data = <<>> /\ enc = <<>> /\ obj2 = Unset /\ cut = 0 /\ objcut = Unset
    /\ VarintIdle /\ LookupIdle /\ registry = <<>>

\* obj.data
Data ==
    /\ pc = "built"
    /\ enc' = encode_value(obj)
    /\ pc' = "data"
    /\ UNCHANGED <<data, obj, obj2, cut, objcut, varintVars, lookupVars, registry>>

\* Integer(data=obj.data).value, for an Integer obj
DecodeData ==
    /\ pc = "data"
    /\ obj.cls.codec = "Integer"
    /\ value' = Integer_decode_value(enc)
    /\ pc' = "decoded"
    /\ UNCHANGED <<n, tail, bytearr, parseVars, lookupVars, registry>>

\* bytes(obj)
Bytes ==
    /\ pc = "built"
    /\ enc' = bytes(obj)
    /\ pc' = "bytes"
    /\ UNCHANGED <<data, obj, obj2, cut, objcut, varintVars, lookupVars, registry>>

NextEncode == Data \/ DecodeData \/ Bytes
SpecEncode == InitEncode /\ [][NextEncode]_vars

\* --- parse(data), bytes(obj), parse(bytes(obj)), parse(data[:cut]) --------
InitParse ==
    /\ pc = "start"
    /\ data \in Buffers
    /\ obj = Unset /\ enc = <<>> /\ obj2 = Unset /\ cut = 0 /\ objcut = Unset
    /\ VarintIdle /\ LookupIdle /\ registry = <<>>

\* obj = berp.parse(data)
Parse ==
    /\ pc = "start"
    /\ LET r == parse(registry, data)
       IN  /\ obj' = r.obj
           /\ registry' = r.reg
           /\ pc' = IF r.obj.err = "" THEN "parsed" ELSE "rejected"
    /\ UNCHANGED <<data, enc, obj2, cut, objcut, varintVars, lookupVars>>

\* bytes(obj)
Encode ==
    /\ pc = "parsed"
    /\ enc' = bytes(obj)
    /\ pc' = "encoded"
    /\ UNCHANGED <<data, obj, obj2, cut, objcut, varintVars, lookupVars, registry>>

\* berp.parse(bytes(obj))
Reparse ==
    /\ pc = "encoded"
    /\ LET r == parse(registry, enc)
       IN  /\ obj2' = r.obj
           /\ registry' = r.reg
    /\ pc' = "reparsed"
    /\ UNCHANGED <<data, obj, enc, cut, objcut, varintVars, lookupVars>>

\* berp.parse(data[:k]) for a proper prefix of an accepted buffer
ParsePrefix ==
    /\ pc = "parsed"
    /\ \E k \in 0..(Len(data) - 1) :
           LET r == parse(registry, Take(data, k))
           IN  /\ cut' = k
               /\ objcut' = r.obj
               /\ registry' = r.reg
    /\ pc' = "prefix"
    /\ UNCHANGED <<data, obj, enc, obj2, varintVars, lookupVars>>

NextParse == Parse \/ Encode \/ Reparse \/ ParsePrefix
SpecParse == InitParse /\ [][NextParse]_vars

\* --- ASN1Object.find_class(tag, cons, asn1cls), called again and again ----
InitLookup ==
    /\ pc = "lookup"
    /\ registry = <<>>
    /\ LookupIdle /\ VarintIdle /\ ParseIdle

FindClass ==
    /\ pc = "lookup"
    /\ lookups < MaxLookups
    /\ \E t \in Triples :
           LET r == find_class(registry, Id_ASN1Object, t[1], t[2], t[3])
           IN  /\ request' = t
               /\ found' = r.found
               /\ created' = (Len(r.reg) > Len(registry))
               /\ registry' = r.reg
               /\ resolved' = resolved \cup {<<t, r.found>>}
    /\ lookups' = lookups + 1
    /\ UNCHANGED <<pc, varintVars, parseVars>>

NextLookup == FindClass
SpecLookup == InitLookup /\ [][NextLookup]_vars

\* the default specification: the round trip of src/test.py
Spec == SpecParse

----------------------------------------------------------------------------
(* Well-formed DER, read off X.690 and not off the parser: what the claims *)
(* about DER input quantify over.                                          *)

\* the big-endian number the digits ds spell in the given base
RECURSIVE Number(_, _)
Number(ds, base) ==
    IF ds = <<>> THEN 0
    ELSE Number(SubSeq(ds, 1, Len(ds) - 1), base) * base + ds[Len(ds)]

\* the length of the base-128 number at the front of bs (0: there is none)
RECURSIVE Base128Len(_)
Base128Len(bs) ==
    IF bs = <<>> THEN 0
    ELSE IF bs[1] < 128 THEN 1
    ELSE IF Base128Len(Tail(bs)) = 0 THEN 0 ELSE 1 + Base128Len(Tail(bs))

\* bs is a sequence of minimal base-128 numbers
RECURSIVE Base128s(_)
Base128s(bs) ==
    \/ bs = <<>>
    \/ /\ Base128Len(bs) > 0
       /\ bs[1] # 128
       /\ Base128s(Drop(bs, Base128Len(bs)))

\* the header at the front of bs, when it is a definite, minimal DER header
DerHeader(bs) ==
    LET ext == Len(bs) >= 1 /\ bs[1] % 32 = 31
        tl == IF ext THEN Base128Len(Tail(bs)) ELSE 0
        tagv == IF ext
                THEN Number([i \in 1..tl |-> bs[1 + i] % 128], 128)
                ELSE bs[1] % 32
        lb == bs[2 + tl]
        k == IF lb > 128 THEN lb - 128 ELSE 0
        lenv == IF lb > 128 THEN Number(SubSeq(bs, 3 + tl, 2 + tl + k), 256) ELSE lb
        ok == /\ Len(bs) >= 2 + tl
              /\ ext => (tl > 0 /\ bs[2] # 128 /\ tagv >= 31)
              /\ lb # 128 /\ lb # 255
              /\ lb > 128 => (Len(bs) >= 2 + tl + k /\ bs[3 + tl] # 0 /\ lenv >= 128)
              /\ Len(bs) >= 2 + tl + k + lenv
    IN  IF ok
        THEN [ok |-> TRUE, class |-> bs[1] \div 64, cons |-> (bs[1] \div 32) % 2,
              tag |-> tagv, hlen |-> 2 + tl + k, len |-> lenv]
        ELSE [ok |-> FALSE, class |-> 0, cons |-> 0, tag |-> 0, hlen |-> 0, len |-> 0]

\* the contents c of a primitive DER value of a built-in Universal type
DerContents(tag, c) ==
    CASE tag = Tag_Boolean -> c \in {<<0>>, <<255>>}
      [] tag = Tag_Integer ->
            /\ Len(c) >= 1
            /\ Len(c) >= 2 => ~(c[1] = 0 /\ c[2] < 128) /\ ~(c[1] = 255 /\ c[2] >= 128)
      [] tag = Tag_Null -> c = <<>>
      [] tag = Tag_OID -> Len(c) >= 1 /\ Base128s(Tail(c))
      [] tag \in {Tag_IA5String, Tag_PrintableString} -> \A i \in 1..Len(c) : c[i] < 128
      [] tag \in {Tag_UTF8String, Tag_GeneralString, Tag_UniversalString} ->
            utf8_decode(c).err = ""
      [] OTHER -> TRUE

\* bs is a concatenation of well-formed DER values; eoc says whether a
\* value with identifier octet 00 may be among them
RECURSIVE DerValues(_, _)
DerValues(bs, eoc) ==
    LET h == DerHeader(bs)
        c == SubSeq(bs, h.hlen + 1, h.hlen + h.len)
    IN  \/ bs = <<>>
        \/ /\ h.ok
           /\ eoc \/ bs[1] # 0
           /\ IF h.cons = 1 THEN DerValues(c, TRUE)
              ELSE h.class = Universal => DerContents(h.tag, c)
           /\ DerValues(Drop(bs, h.hlen + h.len), eoc)

\* b is one well-formed definite-length DER value and nothing else
WellFormedDER(b) ==
    /\ DerHeader(b).ok
    /\ DerHeader(b).hlen + DerHeader(b).len = Len(b)
    /\ DerValues(b, TRUE)

\* b is a constructed value of indefinite length whose children are
\* well-formed DER values followed by the End-of-Contents 00 00 that ends b
IndefiniteBER(b) ==
    LET tl == IF b[1] % 32 = 31 THEN Base128Len(Tail(b)) ELSE 0
    IN  /\ Len(b) >= 4
        /\ (b[1] \div 32) % 2 = 1
        /\ b[1] % 32 = 31 => tl > 0
        /\ Len(b) >= 4 + tl
        /\ b[2 + tl] = 128
        /\ SubSeq(b, Len(b) - 1, Len(b)) = <<0, 0>>
        /\ DerValues(SubSeq(b, 3 + tl, Len(b) - 2), FALSE)

\* the nodes of the tree below o, o included
RECURSIVE Nodes(_)
Nodes(o) == {o} \cup UNION {Nodes(o.value.items[i]) : i \in 1..Len(o.value.items)}

----------------------------------------------------------------------------
(* The claims.                                                             *)

\* C1: for every well-formed definite-length DER buffer b, parse(b)
\* succeeds and bytes(parse(b)) is b, byte for byte.
C1_ByteRoundTrip ==
    WellFormedDER(data) =>
        /\ pc # "rejected"
        /\ pc \in {"encoded", "reparsed"} => enc = data

\* C2: for every well-formed definite-length DER buffer b, parse(b) and
\* parse(bytes(parse(b))) succeed and the second equals the first by __eq__:
\* equal (TAG, CLASS, CONS) and deeply equal value.
C2_ReparseStable ==
    WellFormedDER(data) =>
        /\ pc # "rejected"
        /\ pc = "reparsed" => obj2.err = "" /\ eq(obj2, obj)

\* a nested DER value whose re-encoding is not the source was parsed again
C2_Witness ==
    /\ pc = "reparsed"
    /\ WellFormedDER(data)
    /\ obj.value.kind = "list"
    /\ enc # data
    /\ eq(obj2, obj)

\* C3: for every buffer b that is an indefinite-length constructed value with
\* well-formed children and the End-of-Contents 00 00 at its end, parse(b)
\* succeeds, keeps the EOC node as the last child, and bytes(parse(b)) is b.
C3_IndefiniteRoundTrip ==
    IndefiniteBER(data) =>
        /\ pc # "rejected"
        /\ pc \in {"parsed", "encoded", "reparsed"} =>
               /\ obj.indefinite
               /\ obj.value.items # <<>>
               /\ obj.value.items[Len(obj.value.items)].cls.eoc
        /\ pc \in {"encoded", "reparsed"} => enc = data

\* C4: decode_varint of encode_varint(n) followed by tail returns n and
\* removes exactly the bytes of encode_varint(n), leaving tail.
C4_VarintRoundTrip ==
    /\ pc # "raised"
    /\ pc = "decoded_varint" => value = n /\ bytearr = tail

\* a three-byte varint was decoded in front of a tail that starts with a
\* byte whose continuation bit is set
C4_Witness ==
    /\ pc = "decoded_varint"
    /\ n >= 16384
    /\ tail # <<>>
    /\ tail[1] >= 128
    /\ bytearr = tail

\* C5: Integer._encode_value(v) is the shortest byte string, of at least one
\* byte, that Integer._decode_value maps back to v.
C5_IntegerMinimal ==
    (pc = "decoded" /\ obj.cls.codec = "Integer") =>
        /\ value = obj.value.num
        /\ Len(enc) >= 1
        /\ \A k \in 1..(Len(enc) - 1) : \A s \in [1..k -> 0..255] :
               Integer_decode_value(s) # obj.value.num

\* C6: the value bytes of Boolean(true) are the one byte 0xFF and those of
\* Boolean(false) the one byte 0x00.
C6_BooleanBytes ==
    (pc = "data" /\ obj.cls.codec = "Boolean") =>
        enc = IF obj.value.num = 1 THEN <<255>> ELSE <<0>>

\* C7, as amended: bytes(Sequence([Integer(1), Null()])) is
\* 30 05 02 01 01 05 00.
C7_SequenceBytes ==
    (pc = "bytes" /\ obj = Sequence(<<Integer(1), Null>>)) =>
        enc = <<48, 5, 2, 1, 1, 5, 0>>

\* C7, as claimed: bytes(Sequence([Integer(1), Null()])) is
\* 30 03 02 01 01 05 00.
C7_AsClaimed ==
    (pc = "bytes" /\ obj = Sequence(<<Integer(1), Null>>)) =>
        enc = <<48, 3, 2, 1, 1, 5, 0>>

\* bytes() was called on Sequence([Integer(1), Null()])
C7_Witness == pc = "bytes" /\ obj = Sequence(<<Integer(1), Null>>) /\ Len(enc) = 7

\* C8: when parse accepts b and the top-level value spans all of b, parse
\* of every proper prefix of b raises.
C8_TruncationRejected ==
    (pc = "prefix" /\ obj.length = Len(data)) => objcut.err # ""

\* a prefix that ends right before the End-of-Contents of an indefinite
\* value with another child was rejected
C8_Witness ==
    /\ pc = "prefix"
    /\ obj.length = Len(data)
    /\ obj.indefinite
    /\ Len(obj.value.items) >= 2
    /\ cut = Len(data) - 2
    /\ objcut.err # ""

\* C9: in every node parse returns for an indefinite-length value the last
\* child is an End-of-Contents node with an empty value and no earlier child
\* is one; no End-of-Contents node with a value is returned.
C9_EOCTerminated ==
    pc \in {"parsed", "encoded", "reparsed", "prefix"} =>
        \A o \in Nodes(obj) :
            /\ o.cls.eoc => o.value.seq = <<>>
            /\ o.indefinite =>
                   /\ o.value.items # <<>>
                   /\ \A i \in 1..Len(o.value.items) :
                          o.value.items[i].cls.eoc <=> i = Len(o.value.items)

Triple(cl) == <<cl.TAG, cl.CONS, cl.CLASS>>

====
